---- MODULE Spec2Model ----
(***************************************************************************)
(* Model of the declarative file-tree builder of jaraco/path.py:           *)
(* build / create (functools.singledispatch) / Recording, run against a    *)
(* Recording target or a pathlib.Path target on a small file system.       *)
(*                                                                         *)
(* A str is a sequence of characters ("CR", "LF" and "eacute" standing    *)
(* for '\r', '\n' and U+00E9); bytes is a sequence of byte names ("x61"  *)
(* is 0x61).  A path is the sequence of its parts.                        *)
(***************************************************************************)
EXTENDS Integers, Sequences, FiniteSets, TLC

\* ------------------------------------------------------------------ bounds
\* Largest number of entries (at all nesting levels together) of a spec.
MaxNodes == 3
\* Number of times the caller runs build(spec, target) on the same target.
MaxBuilds == 2
\* Symbolic links followed while resolving one path before ELOOP.
MaxHops == 3

\* ------------------------------------------------------------ input values
\* Keys of a spec: single path segments.
Names == {"a", "b"}

\* str contents: 'a', 'e-acute + newline', and a text holding '\r\n'.
Texts == { <<"a">>, <<"eacute", "LF">>, <<"CR", "LF">> }

\* bytes contents.
ByteStrings == { <<"x0D", "x0A">> }

\* Symlink contents: the same payloads as keys and as the str 'a'.
LinkTargets == { <<"a">>, <<"b">> }

Str(s) == [type |-> "str", text |-> s]

BytesOf(b) == [type |-> "bytes", data |-> b]

\* Symlink is a subclass of str: the same payload under another type.
Symlink(s) == [type |-> "Symlink", text |-> s]

Dict(items) == [type |-> "dict", items |-> items]

\* A content of a type create has no overload for and that is no mapping.
IntContent == [type |-> "int", number |-> 5]

LeafContents ==
    {Str(s) : s \in Texts} \cup {BytesOf(b) : b \in ByteStrings}
        \cup {Symlink(s) : s \in LinkTargets} \cup {IntContent}

KeysOf(items) == {items[i].name : i \in DOMAIN items}

\* Mappings by size: SpecsTable(n)[k + 1] holds the dict literals with
\* exactly k entries in total (k <= n), keys distinct within one mapping, in
\* every declaration order.
RECURSIVE SpecsTable(_)
SpecsTable(n) ==
    IF n = 0 THEN << {<<>>} >>
    ELSE LET t == SpecsTable(n - 1) IN
         Append(t, UNION {
             { <<[name |-> kr[1], content |-> c]>> \o kr[2] :
                 kr \in {x \in Names \X t[n - i] : x[1] \notin KeysOf(x[2])},
                 c \in (IF i = 0 THEN LeafContents \cup {Dict(<<>>)}
                        ELSE {Dict(sub) : sub \in t[i + 1]}) }
             : i \in 0..(n - 1) })

FilesSpecs == LET t == SpecsTable(MaxNodes) IN UNION {t[k] : k \in DOMAIN t}


\* ------------------------------------------------------- str, bytes, paths
\* Variant: the locale's one-byte encoding instead of UTF-8.
Latin1Char(c) ==
    CASE c = "a" -> <<"x61">>
      [] c = "b" -> <<"x62">>
      [] c = "/" -> <<"x2F">>
      [] c = "." -> <<"x2E">>
      [] c = "CR" -> <<"x0D">>
      [] c = "LF" -> <<"x0A">>
      [] c = "eacute" -> <<"xE9">>

\* str.encode('utf-8') of one character.
Utf8Char(c) ==
    CASE c = "a" -> <<"x61">>
      [] c = "b" -> <<"x62">>
      [] c = "/" -> <<"x2F">>
      [] c = "." -> <<"x2E">>
      [] c = "CR" -> <<"x0D">>
      [] c = "LF" -> <<"x0A">>
      [] c = "eacute" -> <<"xC3", "xA9">>

RECURSIVE Utf8Encode(_)
Utf8Encode(s) ==
    IF s = <<>> THEN <<>> ELSE Utf8Char(Head(s)) \o Utf8Encode(Tail(s))

\* bytes.decode('utf-8'); every file of the model holds well-formed UTF-8.
RECURSIVE Utf8Decode(_)
Utf8Decode(b) ==
    IF b = <<>> THEN <<>>
    ELSE IF Head(b) = "xC3" /\ Len(b) >= 2 /\ b[2] = "xA9"
         THEN <<"eacute">> \o Utf8Decode(Tail(Tail(b)))
    ELSE LET c == CASE Head(b) = "x61" -> "a"
                    [] Head(b) = "x62" -> "b"
                    [] Head(b) = "x2F" -> "/"
                    [] Head(b) = "x2E" -> "."
                    [] Head(b) = "x0D" -> "CR"
                    [] Head(b) = "x0A" -> "LF"
                    [] OTHER -> "?"
         IN <<c>> \o Utf8Decode(Tail(b))

\* os.linesep of the platform.
LineSep(os) == IF os = "nt" THEN <<"CR", "LF">> ELSE <<"LF">>

\* Text-mode output with newline=None: every '\n' becomes os.linesep.
RECURSIVE TranslateOnWrite(_, _)
TranslateOnWrite(s, os) ==
    IF s = <<>> THEN <<>>
    ELSE (IF Head(s) = "LF" THEN LineSep(os) ELSE <<Head(s)>>)
            \o TranslateOnWrite(Tail(s), os)

\* Text-mode input with newline=None (universal newlines): '\r\n' and a
\* lone '\r' are both read as '\n'.
RECURSIVE TranslateOnRead(_)
TranslateOnRead(s) ==
    IF s = <<>> THEN <<>>
    ELSE IF Head(s) = "CR"
         THEN IF Len(s) >= 2 /\ s[2] = "LF"
              THEN <<"LF">> \o TranslateOnRead(Tail(Tail(s)))
              ELSE <<"LF">> \o TranslateOnRead(Tail(s))
    ELSE <<Head(s)>> \o TranslateOnRead(Tail(s))

\* The parts of a relative path given as a str: split on '/'.
RECURSIVE SplitPath(_, _)
SplitPath(s, part) ==
    IF s = <<>> THEN (IF part = <<>> THEN <<>> ELSE <<part>>)
    ELSE IF Head(s) = "/"
         THEN (IF part = <<>> THEN <<>> ELSE <<part>>) \o SplitPath(Tail(s), <<>>)
    ELSE SplitPath(Tail(s), part \o <<Head(s)>>)

\* A key is one character, so a part is the one-character str of the key.
PartName(part) == part[1]

RECURSIVE PartsOfStr(_)
PartsOfStr(parts) ==
    IF parts = <<>> THEN <<>>
    ELSE <<PartName(Head(parts))>> \o PartsOfStr(Tail(parts))

TargetParts(s) == PartsOfStr(SplitPath(s, <<>>))

\* str(PurePosixPath): the parts joined by '/', and '.' for the empty path.
RECURSIVE JoinParts(_)
JoinParts(p) ==
    IF Len(p) = 1 THEN <<p[1]>>
    ELSE <<Head(p), "/">> \o JoinParts(Tail(p))

PathStr(p) == IF p = <<>> THEN <<".">> ELSE JoinParts(p)

Front(p) == SubSeq(p, 1, Len(p) - 1)

Last(p) == p[Len(p)]


\* ------------------------------------------------------------- file system
\* fs maps the real path of every existing node to the node; the target
\* directory of the build is the root <<>>.
DirNode == [kind |-> "dir"]

FileNode(data) == [kind |-> "file", data |-> data]

\* isdir is the type Windows fixes when the link is created; POSIX links
\* have none (always FALSE).
LinkNode(target, isdir) == [kind |-> "link", target |-> target, isdir |-> isdir]

EmptyFs == (<<>> :> DirNode)

Found(p) == [ok |-> TRUE, path |-> p, err |-> "None"]

Failed(e) == [ok |-> FALSE, path |-> <<>>, err |-> e]

\* Path resolution by the operating system: from the existing node cur,
\* follow the parts of rest, following every symbolic link met (its target
\* is relative to the directory holding the link).  On Windows a link
\* created as a file link does not lead to a directory, nor a directory
\* link to a file.
RECURSIVE Walk(_, _, _, _, _)
Walk(fs, os, cur, rest, hops) ==
    IF rest = <<>> THEN Found(cur)
    ELSE IF fs[cur].kind # "dir" THEN Failed("NotADirectoryError")
    ELSE LET q == Append(cur, Head(rest)) IN
         IF q \notin DOMAIN fs THEN Failed("FileNotFoundError")
         ELSE IF fs[q].kind # "link" THEN Walk(fs, os, q, Tail(rest), hops)
         ELSE IF hops = 0 THEN Failed("OSError")
         ELSE LET r == Walk(fs, os, cur, TargetParts(fs[q].target), hops - 1) IN
              IF ~r.ok THEN r
              ELSE IF os = "nt" /\ fs[q].isdir # (fs[r.path].kind = "dir")
                   THEN Failed("OSError")
              ELSE Walk(fs, os, r.path, Tail(rest), hops)

Resolve(fs, os, p) == Walk(fs, os, <<>>, p, MaxHops)

\* Path.is_dir(): follows links, False on any error.
IsDir(fs, os, p) ==
    LET r == Resolve(fs, os, p) IN r.ok /\ fs[r.path].kind = "dir"

Done(newfs) == [exc |-> "None", fs |-> newfs]

Raise(e, oldfs) == [exc |-> e, fs |-> oldfs]

\* Variant: mkdir() without exist_ok.
PathMkdirStrict(fs, os, p) ==
    LET par == Resolve(fs, os, Front(p)) IN
    IF ~par.ok THEN Raise(par.err, fs)
    ELSE IF fs[par.path].kind # "dir" THEN Raise("NotADirectoryError", fs)
    ELSE LET q == Append(par.path, Last(p)) IN
         IF q \in DOMAIN fs THEN Raise("FileExistsError", fs)
         ELSE Done(fs @@ (q :> DirNode))

\* Path.mkdir(exist_ok=True): os.mkdir, and an existing path is accepted
\* when it is a directory.
PathMkdir(fs, os, p) ==
    LET par == Resolve(fs, os, Front(p)) IN
    IF ~par.ok THEN Raise(par.err, fs)
    ELSE IF fs[par.path].kind # "dir" THEN Raise("NotADirectoryError", fs)
    ELSE LET q == Append(par.path, Last(p)) IN
         IF q \in DOMAIN fs
         THEN IF IsDir(fs, os, p) THEN Done(fs) ELSE Raise("FileExistsError", fs)
         ELSE Done(fs @@ (q :> DirNode))

\* open(path, 'w' or 'wb') then write: creates or truncates the file the
\* path resolves to, a dangling link creating its target.
RECURSIVE WriteFile(_, _, _, _, _)
WriteFile(fs, os, p, data, hops) ==
    LET par == Resolve(fs, os, Front(p)) IN
    IF ~par.ok THEN Raise(par.err, fs)
    ELSE IF fs[par.path].kind # "dir" THEN Raise("NotADirectoryError", fs)
    ELSE LET q == Append(par.path, Last(p)) IN
         IF q \notin DOMAIN fs THEN Done(fs @@ (q :> FileNode(data)))
         ELSE IF fs[q].kind = "file" THEN Done([fs EXCEPT ![q] = FileNode(data)])
         ELSE IF fs[q].kind = "dir"
              THEN Raise(IF os = "nt" THEN "PermissionError"
                         ELSE "IsADirectoryError", fs)
         ELSE IF hops = 0 \/ (os = "nt" /\ fs[q].isdir) THEN Raise("OSError", fs)
         ELSE WriteFile(fs, os, par.path \o TargetParts(fs[q].target),
                        data, hops - 1)

\* Path.write_bytes(data).
PathWriteBytes(fs, os, p, data) == WriteFile(fs, os, p, data, MaxHops)

\* Path.write_text(text, encoding='utf-8'): text mode, newline=None.
PathWriteText(fs, os, p, text) ==
    WriteFile(fs, os, p, Utf8Encode(TranslateOnWrite(text, os)), MaxHops)

\* Variant: the arguments of os.symlink swapped, the link made at the
\* target and pointing to the name of the path.
PathSymlinkToSwapped(fs, os, p, target) ==
    LET par == Resolve(fs, os, Front(p)) IN
    IF ~par.ok THEN Raise(par.err, fs)
    ELSE IF fs[par.path].kind # "dir" THEN Raise("NotADirectoryError", fs)
    ELSE LET q == par.path \o TargetParts(target) IN
         IF q \in DOMAIN fs THEN Raise("FileExistsError", fs)
         ELSE Done(fs @@ (q :> LinkNode(<<Last(p)>>, FALSE)))

\* Path.symlink_to(target): os.symlink(target, path) with
\* target_is_directory=False.  On Windows the link is a directory link
\* only when the target exists as a directory at this moment.
PathSymlinkTo(fs, os, p, target) ==
    LET par == Resolve(fs, os, Front(p)) IN
    IF ~par.ok THEN Raise(par.err, fs)
    ELSE IF fs[par.path].kind # "dir" THEN Raise("NotADirectoryError", fs)
    ELSE LET q == Append(par.path, Last(p))
             t == par.path \o TargetParts(target)
             isdir == /\ os = "nt"
                      /\ t \in DOMAIN fs
                      /\ \/ fs[t].kind = "dir"
                         \/ fs[t].kind = "link" /\ fs[t].isdir
         IN IF q \in DOMAIN fs THEN Raise("FileExistsError", fs)
            ELSE Done(fs @@ (q :> LinkNode(target, isdir)))

\* Path.read_bytes().
ReadBytes(fs, os, p) ==
    LET r == Resolve(fs, os, p) IN
    IF ~r.ok THEN [ok |-> FALSE, err |-> r.err, data |-> <<>>]
    ELSE IF fs[r.path].kind # "file"
         THEN [ok |-> FALSE, err |-> "IsADirectoryError", data |-> <<>>]
    ELSE [ok |-> TRUE, err |-> "None", data |-> fs[r.path].data]

\* Path.read_text(encoding='utf-8'): text mode, universal newlines.
ReadText(fs, os, p) ==
    LET r == ReadBytes(fs, os, p) IN
    IF ~r.ok THEN [ok |-> FALSE, err |-> r.err, text |-> <<>>]
    ELSE [ok |-> TRUE, err |-> "None",
          text |-> TranslateOnRead(Utf8Decode(r.data))]


\* ------------------------------------------------------------------- state
VARIABLES
    spec,      \* the FilesSpec the caller passes to build
    prefix,    \* the target the caller passes to build
    os_name,   \* os.name of the platform: "posix" or "nt"
    fs,        \* the file system below the target directory
    record,    \* the record list shared by the Recording objects
    stack,     \* the active build() calls, outermost first
    exc,       \* the exception being raised, NoExc when none
    ops,       \* the TreeMaker methods invoked so far, in order
    pc,        \* the caller: "idle", "running", "done" or "raised"
    builds     \* number of build(spec, prefix) calls the caller has made

\* The process and its DirectoryStack.
VARIABLES
    cwd,       \* os.getcwd(): the absolute path of the current directory
    dirstack,  \* the DirectoryStack, a list of saved directories
    blocks,    \* the with stack.context(...) blocks being executed
    calls      \* the pushd and popd calls made so far, in order

\* Recording objects made by the caller and by the / operator.
VARIABLES
    heap,      \* the list objects: heap[i] is the content of list i
    objs,      \* the Recording objects, each with its loc and its record
    written    \* the objects write_text was called on, in order

dvars == <<cwd, dirstack, blocks, calls>>

rvars == <<heap, objs, written>>

vars == <<spec, prefix, os_name, fs, record, stack, exc, ops, pc, builds,
          dvars, rvars>>

NoExc == [type |-> "None", op |-> "None", path |-> <<>>]

Exc(type, op, path) == [type |-> type, op |-> op, path |-> path]

\* ------------------------------------------------------------- TreeMaker
TreeMakerMethods ==
    {"__truediv__", "mkdir", "write_text", "write_bytes", "symlink_to"}

MethodsOf(cls) ==
    CASE cls = "Recording" -> TreeMakerMethods
      [] cls = "Path" -> TreeMakerMethods \cup {"read_text", "read_bytes"}
      [] cls = "str" -> {"encode"}

\* _ensure_tree_maker: a TreeMaker is used as it is, anything else is
\* wrapped in pathlib.Path.
_ensure_tree_maker(obj) ==
    IF TreeMakerMethods \subseteq MethodsOf(obj.cls) THEN obj
    ELSE [cls |-> "Path", loc |-> obj.loc]

\* Recording.__truediv__ and Path.__truediv__ with a one-segment name.
TrueDiv(obj, name) == [cls |-> obj.cls, loc |-> Append(obj.loc, name)]

Outcome(e, newfs, newrecord) == [exc |-> e, fs |-> newfs, record |-> newrecord]

FromPath(r) == Outcome(r.exc, r.fs, record)

\* Recording.mkdir returns at once; Path.mkdir(exist_ok=True).
Mkdir(path) ==
    IF path.cls = "Recording" THEN Outcome("None", fs, record)
    ELSE FromPath(PathMkdir(fs, os_name, path.loc))

\* Variant: the record gets the name alone, not the path from the root.
RecordingWriteTextName(path) ==
    Outcome("None", fs, Append(record, <<Last(path.loc)>>))

\* Recording.write_text appends str(self.loc) to the record.
RecordingWriteText(path) == Outcome("None", fs, Append(record, PathStr(path.loc)))

WriteText(path, content) ==
    IF path.cls = "Recording" THEN RecordingWriteText(path)
    ELSE FromPath(PathWriteText(fs, os_name, path.loc, content))

\* Recording.write_bytes = write_text.
WriteBytes(path, content) ==
    IF path.cls = "Recording" THEN RecordingWriteText(path)
    ELSE FromPath(PathWriteBytes(fs, os_name, path.loc, content))

\* Recording.symlink_to does nothing.
SymlinkTo(path, target) ==
    IF path.cls = "Recording" THEN Outcome("None", fs, record)
    ELSE FromPath(PathSymlinkTo(fs, os_name, path.loc, target))

\* -------------------------------------------------- functools.singledispatch
\* Variant: Symlink looked up as the str it also is.
MroStrFirst(type) ==
    CASE type = "Symlink" -> <<"str", "Symlink", "object">>
      [] type = "str" -> <<"str", "object">>
      [] type = "bytes" -> <<"bytes", "object">>
      [] type = "dict" -> <<"dict", "object">>
      [] type = "int" -> <<"int", "object">>

\* The method resolution order of the content types.
Mro(type) ==
    CASE type = "Symlink" -> <<"Symlink", "str", "object">>
      [] type = "str" -> <<"str", "object">>
      [] type = "bytes" -> <<"bytes", "object">>
      [] type = "dict" -> <<"dict", "object">>
      [] type = "int" -> <<"int", "object">>

\* Variant: the Symlink overload is not registered.
RegistryWithoutSymlink == {"object", "bytes", "str"}

\* The types create has an implementation for: the generic function itself
\* (object) and the three registered overloads.
Registry == {"object", "bytes", "str", "Symlink"}

\* singledispatch: the implementation of the first class of the MRO that
\* has one.
Dispatch(type) ==
    LET mro == Mro(type)
        i == CHOOSE j \in DOMAIN mro :
                 /\ mro[j] \in Registry
                 /\ \A k \in 1..(j - 1) : mro[k] \notin Registry
    IN mro[i]

\* ------------------------------------------------------------------ build
Top == stack[Len(stack)]

\* The loop of build is at an entry: no exception, items left in the
\* innermost build call.
AtEntry ==
    /\ pc = "running"
    /\ exc = NoExc
    /\ stack # <<>>
    /\ Top.items # <<>>

Entry == Head(Top.items)

\* _ensure_tree_maker(prefix) / name
EntryPath == TrueDiv(_ensure_tree_maker(Top.prefix), Entry.name)

\* The innermost build call with its iterator advanced past the entry.
Advanced == [stack EXCEPT ![Len(stack)].items = Tail(@)]

Logged(op, path) == Append(ops, [op |-> op, path |-> path.loc])

\* Variant: the nested build is put off until the calls in progress end.
PushBuildDeferred(stk, frame) == <<frame>> \o stk

\* build(content, prefix=path) called from create: a new innermost call.
PushBuild(stk, frame) == Append(stk, frame)

\* The caller calls build(spec, prefix).
CallBuild ==
    /\ pc \in {"idle", "done"}
    /\ builds < MaxBuilds
    /\ builds' = builds + 1
    /\ pc' = "running"
    /\ stack' = <<[items |-> spec, prefix |-> prefix]>>
    /\ UNCHANGED <<dvars, rvars, spec, prefix, os_name, fs, record, exc, ops>>

\* create, generic implementation: path.mkdir(exist_ok=True), then
\* build(content, prefix=path), whose first act is content.items().
CreateDefault ==
    /\ AtEntry
    /\ Dispatch(Entry.content.type) = "object"
    /\ LET path == EntryPath
           r == Mkdir(path)
       IN /\ ops' = Logged("mkdir", path)
          /\ fs' = r.fs
          /\ record' = r.record
          /\ IF r.exc # "None"
             THEN /\ exc' = Exc(r.exc, "mkdir", path.loc)
                  /\ stack' = Advanced
             ELSE IF Entry.content.type # "dict"
             THEN /\ exc' = Exc("AttributeError", "items", path.loc)
                  /\ stack' = Advanced
             ELSE /\ exc' = NoExc
                  /\ stack' = PushBuild(Advanced,
                        [items |-> Entry.content.items, prefix |-> path])
    /\ UNCHANGED <<dvars, rvars, spec, prefix, os_name, pc, builds>>

\* create for bytes: path.write_bytes(content).
CreateBytes ==
    /\ AtEntry
    /\ Dispatch(Entry.content.type) = "bytes"
    /\ LET path == EntryPath
           r == WriteBytes(path, Entry.content.data)
       IN /\ ops' = Logged("write_bytes", path)
          /\ fs' = r.fs
          /\ record' = r.record
          /\ exc' = IF r.exc # "None" THEN Exc(r.exc, "write_bytes", path.loc)
                    ELSE NoExc
    /\ stack' = Advanced
    /\ UNCHANGED <<dvars, rvars, spec, prefix, os_name, pc, builds>>

\* create for str: path.write_text(content, encoding='utf-8').
CreateStr ==
    /\ AtEntry
    /\ Dispatch(Entry.content.type) = "str"
    /\ LET path == EntryPath
           r == WriteText(path, Entry.content.text)
       IN /\ ops' = Logged("write_text", path)
          /\ fs' = r.fs
          /\ record' = r.record
          /\ exc' = IF r.exc # "None" THEN Exc(r.exc, "write_text", path.loc)
                    ELSE NoExc
    /\ stack' = Advanced
    /\ UNCHANGED <<dvars, rvars, spec, prefix, os_name, pc, builds>>

\* create for Symlink: path.symlink_to(content).
CreateSymlink ==
    /\ AtEntry
    /\ Dispatch(Entry.content.type) = "Symlink"
    /\ LET path == EntryPath
           r == SymlinkTo(path, Entry.content.text)
       IN /\ ops' = Logged("symlink_to", path)
          /\ fs' = r.fs
          /\ record' = r.record
          /\ exc' = IF r.exc # "None" THEN Exc(r.exc, "symlink_to", path.loc)
                    ELSE NoExc
    /\ stack' = Advanced
    /\ UNCHANGED <<dvars, rvars, spec, prefix, os_name, pc, builds>>

\* The loop of a build call is exhausted: the call returns.
BuildReturn ==
    /\ pc = "running"
    /\ exc = NoExc
    /\ stack # <<>>
    /\ Top.items = <<>>
    /\ stack' = Front(stack)
    /\ pc' = IF Len(stack) = 1 THEN "done" ELSE "running"
    /\ UNCHANGED <<dvars, rvars, spec, prefix, os_name, fs, record, exc, ops, builds>>

\* Variant: the loop of build swallows the exception and goes on.
PropagateSwallowed ==
    /\ pc = "running"
    /\ exc # NoExc
    /\ stack # <<>>
    /\ exc' = NoExc
    /\ UNCHANGED <<dvars, rvars, spec, prefix, os_name, fs, record, stack, ops, pc, builds>>

\* build and create have no try statement: an exception leaves the
\* innermost build call and, from the outermost one, reaches the caller.
Propagate ==
    /\ pc = "running"
    /\ exc # NoExc
    /\ stack # <<>>
    /\ stack' = Front(stack)
    /\ pc' = IF Len(stack) = 1 THEN "raised" ELSE "running"
    /\ UNCHANGED <<dvars, rvars, spec, prefix, os_name, fs, record, exc, ops, builds>>

RootOf(cls) == [cls |-> cls, loc |-> <<>>]

\* No DirectoryStack in use: the process stays in the root directory.
NoDirectoryStack ==
    /\ cwd = <<>>
    /\ dirstack = <<>>
    /\ blocks = <<>>
    /\ calls = <<>>

\* No Recording made apart from the target of build.
NoRecordings ==
    /\ heap = <<>>
    /\ objs = <<>>
    /\ written = <<>>

InitWith(classes, platforms) ==
    /\ NoDirectoryStack
    /\ NoRecordings
    /\ spec \in FilesSpecs
    /\ prefix \in {RootOf(c) : c \in classes}
    /\ os_name \in platforms
    /\ fs = EmptyFs
    /\ record = <<>>
    /\ stack = <<>>
    /\ exc = NoExc
    /\ ops = <<>>
    /\ pc = "idle"
    /\ builds = 0

\* Any target on any platform.
Init == InitWith({"Recording", "Path", "str"}, {"posix", "nt"})

Next ==
    \/ CallBuild
    \/ CreateDefault
    \/ CreateBytes
    \/ CreateStr
    \/ CreateSymlink
    \/ BuildReturn
    \/ Propagate

Spec == Init /\ [][Next]_vars

bvars == <<spec, prefix, os_name, fs, record, stack, exc, ops, pc, builds>>

\* No build in progress or made.
NoBuild ==
    /\ spec = <<>>
    /\ prefix = RootOf("Recording")
    /\ os_name = "posix"
    /\ fs = EmptyFs
    /\ record = <<>>
    /\ stack = <<>>
    /\ exc = NoExc
    /\ ops = <<>>
    /\ pc = "idle"
    /\ builds = 0

\* --------------------------------------------------------- DirectoryStack
\* Largest number of pushd and popd calls in one run.
MaxCalls == 4

\* The directories that exist: /, /a and /a/b.
ExistingDirs == { <<>>, <<"a">>, <<"a", "b">> }

AbsoluteDir(parts) == [abs |-> TRUE, parts |-> parts]

RelativeDir(parts) == [abs |-> FALSE, parts |-> parts]

\* The new_dir arguments: '/', 'a', 'b' and '..'; 'b' exists only in /a and
\* 'a' only in /.
NewDirs ==
    { AbsoluteDir(<<>>),
      RelativeDir(<<"a">>), RelativeDir(<<"b">>), RelativeDir(<<"..">>) }

\* The absolute path without its '..' parts; the parent of / is /.
RECURSIVE Normalize(_, _)
Normalize(parts, acc) ==
    IF parts = <<>> THEN acc
    ELSE IF Head(parts) = ".."
         THEN Normalize(Tail(parts), IF acc = <<>> THEN <<>> ELSE Front(acc))
    ELSE Normalize(Tail(parts), Append(acc, Head(parts)))

\* os.chdir(d) in directory cur: the directory the process is in afterwards
\* and whether the call raised (the directory does not exist).
Chdir(cur, d) ==
    LET to == Normalize((IF d.abs THEN <<>> ELSE cur) \o d.parts, <<>>) IN
    IF to \in ExistingDirs THEN [ok |-> TRUE, cwd |-> to]
    ELSE [ok |-> FALSE, cwd |-> cur]

\* Variant: the directory is changed before the current one is saved.
pushdAfterChdir(new_dir) ==
    LET r == Chdir(cwd, new_dir) IN
    [stack |-> Append(dirstack, r.cwd), cwd |-> r.cwd, raised |-> ~r.ok]

\* pushd: self.append(os.getcwd()), then os.chdir(new_dir).
pushd(new_dir) ==
    LET r == Chdir(cwd, new_dir) IN
    [stack |-> Append(dirstack, cwd), cwd |-> r.cwd, raised |-> ~r.ok]

\* popd: res = os.getcwd(), os.chdir(self.pop()), return res.
popd ==
    [res |-> cwd,
     stack |-> Front(dirstack),
     cwd |-> Chdir(cwd, AbsoluteDir(Last(dirstack))).cwd]

Called(op, why, cwdAfter, res) ==
    Append(calls, [op |-> op, why |-> why, before |-> cwd,
                   after |-> cwdAfter, res |-> res])

\* The entries the innermost with block must leave on the stack: the body
\* of a block pops only what it pushed.
BlockBase == IF blocks = <<>> THEN 0 ELSE Last(blocks).len + 1

\* Room for n more calls, one popd being kept for every open with block.
CanCall(n) == Len(calls) + Len(blocks) + n <= MaxCalls

\* The caller calls stack.pushd(new_dir).
CallPushd(new_dir) ==
    /\ CanCall(1)
    /\ LET r == pushd(new_dir) IN
          /\ dirstack' = r.stack
          /\ cwd' = r.cwd
          /\ calls' = Called("pushd", IF r.raised THEN "raise" ELSE "call",
                             r.cwd, <<>>)
    /\ UNCHANGED <<blocks, bvars, rvars>>

\* The caller calls stack.popd() on an entry pushed since the innermost
\* with block began.
CallPopd ==
    /\ CanCall(1)
    /\ Len(dirstack) > BlockBase
    /\ LET r == popd IN
          /\ dirstack' = r.stack
          /\ cwd' = r.cwd
          /\ calls' = Called("popd", "call", r.cwd, r.res)
    /\ UNCHANGED <<blocks, bvars, rvars>>

\* with stack.context(new_dir): pushd before the try statement; when it
\* raises the body is not run and nothing is popped.
ContextEnter(new_dir) ==
    /\ CanCall(2)
    /\ LET r == pushd(new_dir) IN
          /\ dirstack' = r.stack
          /\ cwd' = r.cwd
          /\ calls' = Called("pushd", IF r.raised THEN "raise" ELSE "context",
                             r.cwd, <<>>)
          /\ blocks' = IF r.raised THEN blocks
                       ELSE Append(blocks, [cwd |-> cwd, len |-> Len(dirstack)])
    /\ UNCHANGED <<bvars, rvars>>

\* The body of a with block ends, by returning or by raising, having popped
\* what it pushed: the finally clause calls popd.
ContextExit(outcome) ==
    /\ blocks # <<>>
    /\ Len(dirstack) = BlockBase
    /\ LET r == popd IN
          /\ dirstack' = r.stack
          /\ cwd' = r.cwd
          /\ calls' = Called("popd", outcome, r.cwd, r.res)
    /\ blocks' = Front(blocks)
    /\ UNCHANGED <<bvars, rvars>>

\* The caller, or the body of a with block, calls os.chdir(d) itself.
CallChdir(d) ==
    /\ Chdir(cwd, d).ok
    /\ cwd' = Chdir(cwd, d).cwd
    /\ cwd' # cwd
    /\ UNCHANGED <<dirstack, blocks, calls, bvars, rvars>>

InitDirs ==
    /\ NoBuild
    /\ NoRecordings
    /\ cwd \in ExistingDirs
    /\ dirstack = <<>>
    /\ blocks = <<>>
    /\ calls = <<>>

NextDirs ==
    \/ \E d \in NewDirs : CallPushd(d)
    \/ CallPopd
    \/ \E d \in NewDirs : ContextEnter(d)
    \/ \E outcome \in {"return", "raise"} : ContextExit(outcome)
    \/ \E d \in NewDirs : CallChdir(d)

SpecDirs == InitDirs /\ [][NextDirs]_vars

\* ------------------------------------------------------- Recording objects
\* Recording objects as the caller holds them: each has its own loc and a
\* reference to a list, so that two objects may hold the same list.

MaxObjects == 4

MaxWrites == 2

\* record=None of Recording.__init__.
None == 0

\* The loc arguments the caller passes to Recording(): the default
\* PurePosixPath() and PurePosixPath('x').
RootLocs == { <<>>, <<"x">> }

\* The record arguments the caller can pass: none, or a list that exists.
RecordArgs == {None} \cup (1 .. Len(heap))

\* Variant: the record of a Recording made without one is a single list
\* made once, the way a record=[] default would be.
RecordOrDefault(arg) == IF arg # None THEN arg ELSE 1

\* record if record is not None else []: the list the new object refers to;
\* the literal [] is a list that did not exist before.
RecordOrNew(arg) == IF arg # None THEN arg ELSE Len(heap) + 1

\* Recording.__init__: the object, and the heap with the list it refers to.
\* from and other tell how the caller obtained the object: by calling
\* Recording (from = 0) or as objs[from] / other; given tells whether the
\* caller passed a record; arg is the record argument.
NewRecording(loc, arg, from, other, given) ==
    LET rec == RecordOrNew(arg) IN
    [ obj  |-> [loc |-> loc, record |-> rec,
                from |-> from, other |-> other, given |-> given],
      heap |-> IF rec > Len(heap) THEN Append(heap, <<>>) ELSE heap ]

\* r = Recording(loc) or r = Recording(loc, record), arg being the record
CallRecording(loc, arg) ==
    /\ Len(objs) < MaxObjects
    /\ LET new == NewRecording(loc, arg, 0, "", arg # None) IN
         /\ objs' = Append(objs, new.obj)
         /\ heap' = new.heap
    /\ UNCHANGED <<written, bvars, dvars>>

\* objs[o] / other: Recording(self.loc / other, self.record)
CallTrueDiv(o, other) ==
    /\ Len(objs) < MaxObjects
    /\ LET new == NewRecording(Append(objs[o].loc, other), objs[o].record,
                               o, other, TRUE) IN
         /\ objs' = Append(objs, new.obj)
         /\ heap' = new.heap
    /\ UNCHANGED <<written, bvars, dvars>>

\* objs[o].write_text(content) and, being the same function,
\* objs[o].write_bytes(content): self.record.append(str(self.loc))
CallWriteText(o) ==
    /\ Len(written) < MaxWrites
    /\ heap' = [heap EXCEPT ![objs[o].record] = Append(@, PathStr(objs[o].loc))]
    /\ written' = Append(written, o)
    /\ UNCHANGED <<objs, bvars, dvars>>

InitRecordings == NoBuild /\ NoDirectoryStack /\ NoRecordings

NextRecordings ==
    \/ \E loc \in RootLocs, arg \in RecordArgs : CallRecording(loc, arg)
    \/ \E o \in 1 .. Len(objs), other \in Names : CallTrueDiv(o, other)
    \/ \E o \in 1 .. Len(objs) : CallWriteText(o)

SpecRecordings == InitRecordings /\ [][NextRecordings]_vars



\* ============================================================== properties
\* What a spec declares, computed from the literal alone.

\* Every entry of a mapping at every nesting level, with the chain of keys
\* leading to it.
RECURSIVE AllEntries(_, _)
AllEntries(items, dir) ==
    UNION { LET here == Append(dir, items[i].name) IN
            {[path |-> here, content |-> items[i].content]}
                \cup (IF items[i].content.type = "dict"
                      THEN AllEntries(items[i].content.items, here) ELSE {})
          : i \in DOMAIN items }

Declared == AllEntries(spec, <<>>)

TypesIn(types) == \A e \in Declared : e.content.type \in types

\* The '/'-joined chains of keys of the entries of the given types, depth
\* first in declaration order.
RECURSIVE Flattening(_, _, _)
Flattening(items, dir, types) ==
    IF items = <<>> THEN <<>>
    ELSE LET e == Head(items)
             here == IF dir = <<>> THEN <<e.name>> ELSE dir \o <<"/", e.name>>
         IN (IF e.content.type \in types THEN <<here>> ELSE <<>>)
            \o (IF e.content.type = "dict"
                THEN Flattening(e.content.items, here, types) ELSE <<>>)
            \o Flattening(Tail(items), dir, types)

FirstBuildDone == pc = "done" /\ builds = 1

\* C1: a spec whose leaves are all str or bytes, built against a fresh
\* Recording, leaves record equal to the depth-first, declaration-order list
\* of the '/'-joined leaf paths; directories contribute nothing.
C1_RecordIsFlattening ==
    (FirstBuildDone /\ prefix.cls = "Recording" /\ TypesIn({"str", "bytes", "dict"}))
        => record = Flattening(spec, <<>>, {"str", "bytes"})

C1_Witness ==
    /\ FirstBuildDone
    /\ prefix.cls = "Recording"
    /\ TypesIn({"str", "bytes", "dict"})
    /\ \E i \in DOMAIN record : Len(record[i]) = 3
    /\ \E e \in Declared : e.content = Dict(<<>>)

\* The method create calls for a content of each type.
ExpectedOp(type) ==
    CASE type = "str" -> "write_text"
      [] type = "bytes" -> "write_bytes"
      [] type = "Symlink" -> "symlink_to"
      [] type = "dict" -> "mkdir"
      [] OTHER -> "none"

ExpectedOps == {[op |-> ExpectedOp(e.content.type), path |-> e.path] : e \in Declared}

\* The operations of the k-th build, when every build so far has completed.
OpsOfBuild(k) ==
    LET n == Cardinality(Declared) IN SubSeq(ops, (k - 1) * n + 1, k * n)

\* C2: in a build that completes, every entry at every level causes exactly
\* one TreeMaker operation, of the kind of its content, on its own path; no
\* path gets two operations and no other path gets any.
C2_OneOperationPerEntry ==
    pc = "done" =>
        /\ Len(ops) = builds * Cardinality(Declared)
        /\ \A k \in 1..builds :
              LET done == OpsOfBuild(k) IN
              /\ {done[i] : i \in DOMAIN done} = ExpectedOps
              /\ \A i, j \in DOMAIN done : done[i].path = done[j].path => i = j

C2_Witness ==
    /\ FirstBuildDone
    /\ Len(ops) = 3
    /\ {ops[i].op : i \in DOMAIN ops} = {"mkdir", "symlink_to", "write_text"}
    /\ \E i \in DOMAIN ops : Len(ops[i].path) = 2

\* C3 (as claimed): building against a Recording appends the relative path
\* of every leaf, a Symlink leaf included, so that after the build the record
\* holds one entry for each str, bytes and Symlink leaf.
C3_EveryLeafRecorded ==
    (FirstBuildDone /\ prefix.cls = "Recording")
        => record = Flattening(spec, <<>>, {"str", "bytes", "Symlink"})


\* What write_text and write_bytes left at the path of a leaf, read back as
\* the doctest of build reads it.
TextReadsBack(e) ==
    ReadText(fs, os_name, e.path) = [ok |-> TRUE, err |-> "None", text |-> e.content.text]

BytesReadBack(e) ==
    ReadBytes(fs, os_name, e.path) = [ok |-> TRUE, err |-> "None", data |-> e.content.data]

HasChar(s, c) == \E i \in DOMAIN s : s[i] = c

OnFileSystem == prefix.cls # "Recording"

\* C4 (as claimed): after build into an empty directory, reading the path
\* of every str or bytes leaf returns exactly the value of the spec.
C4_RoundTrip ==
    (FirstBuildDone /\ OnFileSystem) =>
        \A e \in Declared :
            /\ e.content.type = "str" => TextReadsBack(e)
            /\ e.content.type = "bytes" => BytesReadBack(e)

\* C4 (amended): the same for every bytes leaf and for every str leaf that
\* holds no carriage return.
C4_RoundTripWithoutCR ==
    (FirstBuildDone /\ OnFileSystem) =>
        \A e \in Declared :
            /\ (e.content.type = "str" /\ ~HasChar(e.content.text, "CR"))
                  => TextReadsBack(e)
            /\ e.content.type = "bytes" => BytesReadBack(e)

C4_Witness ==
    /\ FirstBuildDone
    /\ prefix.cls = "str"
    /\ os_name = "nt"
    /\ \E e \in Declared :
          Len(e.path) = 2 /\ e.content = Str(<<"eacute", "LF">>) /\ TextReadsBack(e)
    /\ \E e \in Declared : e.content.type = "Symlink"

\* The link of a Symlink entry is at the entry's path and holds the target.
IsLinkTo(e) ==
    /\ e.path \in DOMAIN fs
    /\ fs[e.path].kind = "link"
    /\ fs[e.path].target = e.content.text

\* Reading below the link gives what reading below its target, taken
\* relative to the directory of the link, gives.
ReadsThrough(e, suffix) ==
    LET viaTarget == ReadBytes(fs, os_name,
                         Front(e.path) \o TargetParts(e.content.text) \o suffix)
        viaLink == ReadBytes(fs, os_name, e.path \o suffix)
    IN viaTarget.ok => viaLink = viaTarget

\* <<>> reads the link itself, <<x>> reads link/x.
Suffixes == {<<>>} \cup {<<x>> : x \in Names}

RECURSIVE MappingAt(_, _)
MappingAt(items, dir) ==
    IF dir = <<>> THEN items
    ELSE LET i == CHOOSE j \in DOMAIN items : items[j].name = Head(dir)
         IN MappingAt(items[i].content.items, Tail(dir))

\* The target of the link entry e is a key declared before e in the mapping
\* that holds e.
TargetDeclaredFirst(e) ==
    LET items == MappingAt(spec, Front(e.path)) IN
    \E i, j \in DOMAIN items :
        /\ i < j
        /\ <<items[i].name>> = TargetParts(e.content.text)
        /\ items[j].name = Last(e.path)

\* C5 (as claimed): a Symlink(t) entry at d/n makes a link at d/n that
\* resolves to d/t, and reading through it returns the content of d/t,
\* in either declaration order and also below a directory target.
C5_LinkReadsTarget ==
    (FirstBuildDone /\ OnFileSystem) =>
        \A e \in Declared :
            e.content.type = "Symlink" =>
                /\ IsLinkTo(e)
                /\ \A sfx \in Suffixes : ReadsThrough(e, sfx)

\* C5 (amended): the same, except that on Windows reading link/x below a
\* directory target is promised only when the directory is declared before
\* the link.
C5_LinkReadsTargetByPlatform ==
    (FirstBuildDone /\ OnFileSystem) =>
        \A e \in Declared :
            e.content.type = "Symlink" =>
                /\ IsLinkTo(e)
                /\ \A sfx \in Suffixes :
                      (os_name = "nt" /\ sfx # <<>> => TargetDeclaredFirst(e))
                          => ReadsThrough(e, sfx)

C5_Witness ==
    /\ FirstBuildDone
    /\ OnFileSystem
    /\ \E e \in Declared :
          /\ e.content.type = "Symlink"
          /\ ~TargetDeclaredFirst(e)
          /\ os_name = "posix"
          /\ \E x \in Names :
                /\ ReadBytes(fs, os_name, e.path \o <<x>>).ok
                /\ ReadsThrough(e, <<x>>)

\* C6: create dispatches on the type of the content, never on its payload:
\* Symlink gives symlink_to, str write_text, bytes write_bytes, and a
\* mapping mkdir followed by a build of the mapping below the path.
C6_DispatchByType ==
    [][AtEntry =>
        LET type == Entry.content.type
            path == EntryPath
            last == ops'[Len(ops')]
        IN /\ Len(ops') = Len(ops) + 1
           /\ last.path = path.loc
           /\ type = "Symlink" => last.op = "symlink_to"
           /\ type = "str" => last.op = "write_text"
           /\ type = "bytes" => last.op = "write_bytes"
           /\ type = "dict" =>
                 /\ last.op = "mkdir"
                 /\ exc' = NoExc =>
                       /\ Len(stack') = Len(stack) + 1
                       /\ stack'[Len(stack')] =
                              [items |-> Entry.content.items, prefix |-> path]
      ]_vars

C6_Witness ==
    /\ FirstBuildDone
    /\ \E e1, e2 \in Declared :
          /\ e1.content = Str(<<"a">>)
          /\ e2.content = Symlink(<<"a">>)
          /\ \E i, j \in DOMAIN ops :
                /\ ops[i] = [op |-> "write_text", path |-> e1.path]
                /\ ops[j] = [op |-> "symlink_to", path |-> e2.path]

\* C7 (as claimed): building the same spec a second time into the same
\* directory does not raise.
C7_SecondBuildDoesNotRaise ==
    (builds >= 2 /\ OnFileSystem) => exc = NoExc

\* C7 (amended): for a spec without Symlink entries, no step of a second
\* build raises or changes the tree the first build left.
C7_SecondBuildWithoutLinks ==
    [][(builds >= 2 /\ OnFileSystem /\ TypesIn({"str", "bytes", "dict"}))
          => (fs' = fs /\ exc' = NoExc)]_vars

C7_Witness ==
    /\ builds = 2
    /\ pc = "done"
    /\ prefix.cls = "Path"
    /\ TypesIn({"str", "bytes", "dict"})
    /\ \E e \in Declared : Len(e.path) = 2 /\ e.content.type = "str"
    /\ \E e \in Declared : e.content.type = "bytes"

\* C8 (as claimed): a content that is no str, bytes, Symlink or mapping
\* fails with a type error before any operation is applied to its path, so
\* nothing is created there.
C8_FailFast ==
    \A e \in Declared :
        e.content.type = "int" =>
            /\ \A i \in DOMAIN ops : ops[i].path # e.path
            /\ e.path \notin DOMAIN fs
            /\ (exc # NoExc /\ exc.path = e.path) => exc.type = "TypeError"

\* The operations a spec calls for, depth first in declaration order.
RECURSIVE PreOrder(_, _)
PreOrder(items, dir) ==
    IF items = <<>> THEN <<>>
    ELSE LET e == Head(items)
             here == Append(dir, e.name)
         IN <<[op |-> ExpectedOp(e.content.type), path |-> here]>>
            \o (IF e.content.type = "dict"
                THEN PreOrder(e.content.items, here) ELSE <<>>)
            \o PreOrder(Tail(items), dir)

IsBelow(p, q) == Len(p) > Len(q) /\ SubSeq(p, 1, Len(q)) = q

\* C9: the operations of a build are issued in declared order, depth
\* first: entry i and its whole subtree before entry i+1, and the mkdir of
\* a mapping before every operation below it.
C9_DeclaredOrder ==
    TypesIn({"str", "bytes", "Symlink", "dict"}) =>
        LET full == PreOrder(spec, <<>>)
            n == Len(full)
        IN /\ Len(ops) <= builds * n
           /\ \A i \in DOMAIN ops : ops[i] = full[((i - 1) % n) + 1]
           /\ \A i, j \in DOMAIN ops :
                 ( /\ (i - 1) \div n = (j - 1) \div n
                   /\ IsBelow(ops[j].path, ops[i].path) )
                     => (i < j /\ ops[i].op = "mkdir")

C9_Witness ==
    /\ FirstBuildDone
    /\ Len(ops) = 3
    /\ ops[1].op = "mkdir"
    /\ IsBelow(ops[2].path, ops[1].path)
    /\ Len(ops[3].path) = 1

\* C10: once an operation has raised, no further operation is issued, the
\* exception travels to the caller of the outermost build unchanged, and
\* what the completed operations created stays.
C10_RaiseAbortsBuild ==
    [][ /\ exc # NoExc =>
              (ops' = ops /\ fs' = fs /\ record' = record /\ exc' = exc)
        /\ (exc = NoExc /\ exc' # NoExc /\ exc'.op # "items") =>
              (fs' = fs /\ record' = record)
        /\ pc' = "raised" => (exc # NoExc /\ stack' = <<>>)
      ]_vars

C10_Witness ==
    /\ pc = "raised"
    /\ exc.type = "FileExistsError"
    /\ Len(exc.path) = 2
    /\ Len(ops) < builds * Cardinality(Declared)
    /\ ops[Len(ops)] = [op |-> exc.op, path |-> exc.path]
    /\ Front(exc.path) \in DOMAIN fs

\* The positions in the log c of the pushd calls no popd has matched yet,
\* oldest first.
RECURSIVE OpenPushes(_)
OpenPushes(c) ==
    IF c = <<>> THEN <<>>
    ELSE LET before == OpenPushes(Front(c)) IN
         IF Last(c).op = "pushd" THEN Append(before, Len(c)) ELSE Front(before)

\* The latest call, when it is a popd, returned the directory that was
\* current before it and went back to the directory that was current when
\* the pushd it matches was called.
LastPopdMatches ==
    (calls # <<>> /\ Last(calls).op = "popd") =>
        LET open == OpenPushes(Front(calls))
            push == calls[open[Len(open)]]
        IN /\ Last(calls).res = Last(calls).before
           /\ Last(calls).after = push.before

RECURSIVE Origin(_)
Origin(o) == IF objs[o].from = 0 THEN o ELSE Origin(objs[o].from)

RECURSIVE Chain(_)
Chain(o) ==
    IF objs[o].from = 0 THEN <<>>
    ELSE Append(Chain(objs[o].from), objs[o].other)

\* The objects made by Recording(...) without a record argument.
OwnRoots == { r \in 1 .. Len(objs) : objs[r].from = 0 /\ ~objs[r].given }

RecordOf(h, o) == h[objs[o].record]

\* Every object holds the list of its root, and no two roots made without a
\* record argument hold the same list.
SharedWithinRootOnly ==
    /\ \A o \in 1 .. Len(objs) : objs[o].record = objs[Origin(o)].record
    /\ \A q, r \in OwnRoots : q # r => objs[q].record # objs[r].record

\* A write through object o appends stored to the record of o's root and
\* leaves the record of every other root made without a record argument as
\* it was.
WriteLands(o, stored) ==
    LET r == Origin(o) IN
    /\ RecordOf(heap', r) = Append(RecordOf(heap, r), stored)
    /\ r \in OwnRoots =>
         \A q \in OwnRoots \ {r} : RecordOf(heap', q) = RecordOf(heap, q)

\* C12 (as stated): every Recording obtained from a root by / joins shares
\* the root's record, a write at any depth is appended to root.record as the
\* path relative to the root's location (the joined names), and two
\* Recordings made without a record argument never share a record, so a
\* write under one leaves the other's record unchanged.
C12_SharedRecordRelative ==
    /\ []SharedWithinRootOnly
    /\ [][written' # written =>
            WriteLands(Last(written'), PathStr(Chain(Last(written'))))]_vars

\* C12 (amended): as above, but the path stored is the root's loc joined
\* with the names, which is the path relative to the root's location only
\* for a root made with the default loc.
C12_SharedRecordAtLoc ==
    /\ []SharedWithinRootOnly
    /\ [][written' # written =>
            LET o == Last(written') IN
            WriteLands(o, PathStr(objs[Origin(o)].loc \o Chain(o)))]_vars

\* Two roots made without a record argument, one of them at 'x'; a write two
\* joins below that one is in its record and not in the other's.
C12_Witness ==
    /\ written # <<>>
    /\ LET o == Last(written)
           r == Origin(o)
       IN /\ Len(Chain(o)) = 2
          /\ r \in OwnRoots
          /\ objs[r].loc = <<"x">>
          /\ RecordOf(heap, r) = <<PathStr(<<"x">> \o Chain(o))>>
          /\ \E q \in OwnRoots \ {r} : RecordOf(heap, q) = <<>>


====
